---- MODULE Spec2Model ----
(***************************************************************************)
(* Model of snyk_migrate_to_github_app/main.py: one CLI run that checks    *)
(* the tenant, verifies the organisation's integrations, lists the         *)
(* targets page by page and then either reports them (dry run) or PATCHes  *)
(* each one.  The remote service is the environment: every request's       *)
(* outcome (a response, or an exception raised by requests.request) is     *)
(* chosen nondeterministically.                                            *)
(***************************************************************************)
EXTENDS Integers, Sequences, FiniteSets, TLC

\* Bound on the number of targets the service serves in one run (over both
\* listing calls together).
MaxTargets == 2

VARIABLES
    tenant,                 \* main(tenant=...)
    dry_run,                \* main(dry_run=...)
    include_github_targets, \* main(include_github_targets=...)
    pc,                     \* position of the run
    origin,                 \* get_all_targets(origin=...) of the call in progress
    url,                    \* get_all_targets: url of the next listing GET
    acc,                    \* get_all_targets: its local list `targets`
    targets,                \* main: its list `targets`
    idx,                    \* 1-based position of the for loops over targets
    output,                 \* the lines printed so far
    verified,               \* what verify_org_integrations returned
    vresp,                  \* outcome of the integrations GET
    net,                    \* GET endpoints requested so far
    patched,                \* ids of the PATCH requests issued so far, in order
    patchStatus,            \* outcome of each of those PATCH requests
    pages,                  \* per origin: what the pages visited so far held
    returned,               \* per origin: what get_all_targets returned
    fault                   \* exception that left main unhandled, or "none"

vars == <<tenant, dry_run, include_github_targets, pc, origin, url, acc, targets,
          idx, output, verified, vresp, net, patched, patchStatus, pages,
          returned, fault>>

(***************************************************************************)
(* The environment's values                                                *)
(***************************************************************************)

\* Tenant selectors a caller may pass, valid and not.
Tenants == {"", "au", "eu", "uk"}

\* Target records as the REST API serves them.
Targets == {[id |-> "t1", displayName |-> "repo-one"],
            [id |-> "t2", displayName |-> "repo-two"]}

\* Non-empty values of links.next.
Cursors == {"targets?starting_after=p2", "targets?starting_after=p3"}

\* Keys the integrations mapping can hold.
IntegrationTypes == {"github", "github-enterprise", "github-cloud-app"}

\* Status codes of the integrations GET.
IntegrationStatuses == {200, 401, 404}

\* Status codes of a PATCH.
PatchStatuses == {200, 409, 500}

\* Exceptions requests.request raises for a transport failure.  In requests,
\* ConnectTimeout derives from ConnectionError (and Timeout); ReadTimeout
\* derives from Timeout only.
Exceptions == {"ConnectionError", "ConnectTimeout", "ReadTimeout"}

Origins == {"github-enterprise", "github"}

SeqsUpTo(S, n) == UNION {[1..k -> S] : k \in 0..n}

Unsent == [raised |-> "unsent", status |-> 0, keys |-> {}]

Raised(e) == [raised |-> e, status |-> 0, keys |-> {}]

\* Outcomes of the integrations GET.
IntegrationOutcomes ==
    {Raised(e) : e \in Exceptions}
    \cup {[raised |-> "none", status |-> s, keys |-> k] :
             s \in IntegrationStatuses, k \in SUBSET IntegrationTypes}

\* Pages of the listing endpoint holding at most `room` targets: `data` and
\* `links.next` may each be missing.
ListingPages(room) ==
    {[hasData |-> hd, data |-> d, hasNext |-> hn, next |-> n] :
        hd \in BOOLEAN, d \in SeqsUpTo(Targets, room),
        hn \in BOOLEAN, n \in {""} \cup Cursors}

WellFormedPage(p) ==
    /\ (~p.hasData => p.data = <<>>)
    /\ (~p.hasNext => p.next = "")

\* Outcomes of a PATCH.
PatchOutcomes ==
    {[raised |-> e, status |-> 0] : e \in Exceptions}
    \cup {[raised |-> "none", status |-> s] : s \in PatchStatuses}

(***************************************************************************)
(* Pure parts of the program                                               *)
(***************************************************************************)

\* Variant of InvalidTenant: "uk" slipped into the accepted tuple.
InvalidTenant_AcceptsUk(t) == t \notin {"", "au", "eu", "uk"}

\* main: tenant not in ("", "au", "eu")
InvalidTenant(t) == t \notin {"", "au", "eu"}

V1Base(t) ==
    IF t = "eu" THEN "https://api.eu.snyk.io/v1/"
    ELSE IF t = "au" THEN "https://api.au.snyk.io/v1"
    ELSE "https://snyk.io/api/v1"

RestBase(t) ==
    IF t = "eu" THEN "https://api.eu.snyk.io/rest"
    ELSE IF t = "au" THEN "https://api.au.snyk.io/rest"
    ELSE "https://api.snyk.io/rest"

HiddenBase(t) ==
    IF t = "eu" THEN "https://api.eu.snyk.io/hidden"
    ELSE IF t = "au" THEN "https://api.au.snyk.io/hidden"
    ELSE "https://api.snyk.io/hidden"

Line(text, id, name, code) ==
    [text |-> text, id |-> id, name |-> name, code |-> code]

\* verify_org_integrations: `except requests.ConnectionError` catches that
\* class and its subclasses.
CaughtByVerifier(e) == e \in {"ConnectionError", "ConnectTimeout"}

\* verify_org_integrations after the request returned a response: the value
\* returned and the line printed.
CheckIntegrations(r) ==
    IF r.status # 200
    THEN [ok |-> FALSE, lines |-> <<Line("unable to retrieve integrations", "", "", r.status)>>]
    ELSE IF "github-enterprise" \notin r.keys /\ "github" \notin r.keys
    THEN [ok |-> FALSE, lines |-> <<Line("no github integration", "", "", 0)>>]
    ELSE IF "github-cloud-app" \notin r.keys
    THEN [ok |-> FALSE, lines |-> <<Line("no github cloud app integration", "", "", 0)>>]
    ELSE [ok |-> TRUE, lines |-> <<>>]

\* Variant of GateOpen: the verifier's result is advisory, only an exception
\* stops the run.
GateOpen_Advisory(ret) == ret \in {"true", "false"}

\* main: `if verify_org_integrations(...)`.
GateOpen(ret) == ret = "true"

\* get_all_targets: initial url.
InitialUrl(t, o) == [base |-> RestBase(t), path |-> "targets?origin=", origin |-> o]

\* Variant of Accumulate: each page replaces the list instead of extending it.
Accumulate_Replace(a, p) == IF p.hasData THEN p.data ELSE a

\* get_all_targets: `if "data" in response_json: targets = targets + data`.
Accumulate(a, p) == IF p.hasData THEN a \o p.data ELSE a

\* get_all_targets: the break condition.
LastPage(p) == ~p.hasNext \/ p.next = ""

\* get_all_targets: url of the following request.
NextUrl(u, p) == [base |-> u.base, path |-> p.next, origin |-> u.origin]

\* Variant of Extend: targets already listed are skipped.
Extend_Dedup(ts, more) ==
    ts \o SelectSeq(more, LAMBDA t : \A i \in 1..Len(ts) : ts[i] # t)

\* main: targets.extend(...).
Extend(ts, more) == ts \o more

\* Variant of Mode: the two branches swapped.
Mode_Swapped(dry) == IF dry THEN "migrate_targets" ELSE "dry_run_targets"

\* main: `if dry_run: ... else: ...`.
Mode(dry) == IF dry THEN "dry_run_targets" ELSE "migrate_targets"

\* dry_run_targets: the line of one target.
DryRunLine(t) == Line("target", t.id, t.displayName, 0)

\* Variant of Classify: 409 falls into the general failure branch.
Classify_No409(status) ==
    IF status = 200 THEN "migrated" ELSE "unable to migrate"

\* migrate_targets: the three-way branch on response.status_code.
Classify(status) ==
    IF status = 200 THEN "migrated"
    ELSE IF status = 409 THEN "already migrated"
    ELSE "unable to migrate"

\* Variant of MigrateLines: a conflict prints nothing.
MigrateLines_Silent409(t, status) ==
    IF status = 409 THEN <<>>
    ELSE IF status = 200 THEN <<Line("migrated", t.id, t.displayName, 0)>>
    ELSE <<Line("unable to migrate", t.id, t.displayName, status)>>

\* migrate_targets: the line printed for one target's response.
MigrateLines(t, status) ==
    IF Classify(status) = "unable to migrate"
    THEN <<Line(Classify(status), t.id, t.displayName, status)>>
    ELSE <<Line(Classify(status), t.id, t.displayName, 0)>>

NoPages == [o \in Origins |-> [data |-> <<>>, n |-> 0, last |-> "<none>"]]

NotReturned == [o \in Origins |-> [done |-> FALSE, value |-> <<>>]]

(***************************************************************************)
(* Init and the steps of the run                                           *)
(***************************************************************************)

Init ==
    /\ tenant \in Tenants
    /\ dry_run \in BOOLEAN
    /\ include_github_targets \in BOOLEAN
    /\ pc = "main"
    /\ origin = "github-enterprise"
    /\ url = InitialUrl(tenant, "github-enterprise")
    /\ acc = <<>>
    /\ targets = <<>>
    /\ idx = 1
    /\ output = <<>>
    /\ verified = "pending"
    /\ vresp = Unsent
    /\ net = {}
    /\ patched = <<>>
    /\ patchStatus = <<>>
    /\ pages = NoPages
    /\ returned = NotReturned
    /\ fault = "none"

\* main, lines 70-73: the tenant check.
main ==
    /\ pc = "main"
    /\ IF InvalidTenant(tenant)
       THEN /\ output' = output \o <<Line("invalid tenant", "", tenant, 0),
                                     Line("must be eu or au", "", "", 0)>>
            /\ pc' = "done"
       ELSE /\ pc' = "verify_org_integrations"
            /\ UNCHANGED output
    /\ UNCHANGED <<tenant, dry_run, include_github_targets, origin, url, acc,
                   targets, idx, verified, vresp, net, patched, patchStatus,
                   pages, returned, fault>>

\* Variant of verify_org_integrations: a failed check is silently retried
\* instead of returning False.
verify_org_integrations_Retry ==
    /\ pc = "verify_org_integrations"
    /\ \E r \in IntegrationOutcomes :
        /\ vresp' = r
        /\ net' = net \cup {<<"GET", V1Base(tenant), "integrations">>}
        /\ IF r.raised = "none" /\ CheckIntegrations(r).ok
           THEN /\ verified' = "true"
                /\ pc' = "get_all_targets"
           ELSE UNCHANGED <<verified, pc>>
    /\ UNCHANGED <<tenant, dry_run, include_github_targets, origin, url, acc,
                   targets, idx, output, patched, patchStatus, pages, returned,
                   fault>>

\* verify_org_integrations and main's branch on its result.
verify_org_integrations ==
    /\ pc = "verify_org_integrations"
    /\ \E r \in IntegrationOutcomes :
        /\ vresp' = r
        /\ net' = net \cup {<<"GET", V1Base(tenant), "integrations">>}
        /\ IF r.raised # "none"
           THEN IF CaughtByVerifier(r.raised)
                THEN /\ output' = output \o <<Line("unable to connect", "", V1Base(tenant), 0)>>
                     /\ verified' = "false"
                     /\ fault' = fault
                ELSE /\ verified' = "raised"
                     /\ fault' = r.raised
                     /\ output' = output
           ELSE /\ output' = output \o CheckIntegrations(r).lines
                /\ verified' = IF CheckIntegrations(r).ok THEN "true" ELSE "false"
                /\ fault' = fault
    /\ pc' = IF verified' = "raised" THEN "fault"
             ELSE IF GateOpen(verified') THEN "get_all_targets"
             ELSE "done"
    /\ UNCHANGED <<tenant, dry_run, include_github_targets, origin, url, acc,
                   targets, idx, patched, patchStatus, pages, returned>>

\* get_all_targets: one iteration of its while loop, and, when the loop
\* breaks, the return into main (lines 76-86).
get_all_targets ==
    /\ pc = "get_all_targets"
    /\ net' = net \cup {<<"GET", url.base, url.origin>>}
    /\ \/ \E e \in Exceptions :
            /\ fault' = e
            /\ pc' = "fault"
            /\ UNCHANGED <<origin, url, acc, targets, pages, returned>>
       \/ \E p \in ListingPages(MaxTargets - Len(targets) - Len(acc)) :
            /\ WellFormedPage(p)
            /\ pages' = [pages EXCEPT ![origin] =
                            [data |-> @.data \o p.data,
                             n |-> @.n + Len(p.data),
                             last |-> IF p.hasNext THEN p.next ELSE "<absent>"]]
            /\ fault' = fault
            /\ IF LastPage(p)
               THEN /\ returned' = [returned EXCEPT ![origin] =
                                       [done |-> TRUE, value |-> Accumulate(acc, p)]]
                    /\ acc' = <<>>
                    /\ IF origin = "github-enterprise"
                       THEN /\ targets' = Accumulate(acc, p)
                            /\ IF include_github_targets
                               THEN /\ origin' = "github"
                                    /\ url' = InitialUrl(tenant, "github")
                                    /\ pc' = "get_all_targets"
                               ELSE /\ pc' = Mode(dry_run)
                                    /\ UNCHANGED <<origin, url>>
                       ELSE /\ targets' = Extend(targets, Accumulate(acc, p))
                            /\ pc' = Mode(dry_run)
                            /\ UNCHANGED <<origin, url>>
               ELSE /\ acc' = Accumulate(acc, p)
                    /\ url' = NextUrl(url, p)
                    /\ UNCHANGED <<origin, targets, pc, returned>>
    /\ UNCHANGED <<tenant, dry_run, include_github_targets, idx, output,
                   verified, vresp, patched, patchStatus>>

\* dry_run_targets: one iteration of its for loop.
dry_run_targets ==
    /\ pc = "dry_run_targets"
    /\ idx <= Len(targets)
    /\ output' = Append(output, DryRunLine(targets[idx]))
    /\ idx' = idx + 1
    /\ UNCHANGED <<tenant, dry_run, include_github_targets, pc, origin, url, acc,
                   targets, verified, vresp, net, patched, patchStatus, pages,
                   returned, fault>>

\* dry_run_targets: the blank line and the total, after the loop.
dry_run_total ==
    /\ pc = "dry_run_targets"
    /\ idx > Len(targets)
    /\ output' = output \o <<Line("", "", "", 0), Line("total targets", "", "", Len(targets))>>
    /\ pc' = "done"
    /\ UNCHANGED <<tenant, dry_run, include_github_targets, origin, url, acc,
                   targets, idx, verified, vresp, net, patched, patchStatus,
                   pages, returned, fault>>

\* Variant of migrate_targets: the loop is left at the first response that is
\* not 200.
migrate_targets_Abort ==
    /\ pc = "migrate_targets"
    /\ idx <= Len(targets)
    /\ patched' = Append(patched, <<HiddenBase(tenant), targets[idx].id>>)
    /\ \E r \in PatchOutcomes :
        /\ patchStatus' = Append(patchStatus, r)
        /\ IF r.raised # "none"
           THEN /\ fault' = r.raised
                /\ pc' = "fault"
                /\ UNCHANGED <<idx, output>>
           ELSE /\ output' = output \o MigrateLines(targets[idx], r.status)
                /\ idx' = idx + 1
                /\ pc' = IF r.status = 200 THEN pc ELSE "done"
                /\ UNCHANGED fault
    /\ UNCHANGED <<tenant, dry_run, include_github_targets, origin, url, acc,
                   targets, verified, vresp, net, pages, returned>>

\* migrate_targets: one iteration of its for loop.
migrate_targets ==
    /\ pc = "migrate_targets"
    /\ idx <= Len(targets)
    /\ patched' = Append(patched, <<HiddenBase(tenant), targets[idx].id>>)
    /\ \E r \in PatchOutcomes :
        /\ patchStatus' = Append(patchStatus, r)
        /\ IF r.raised # "none"
           THEN /\ fault' = r.raised
                /\ pc' = "fault"
                /\ UNCHANGED <<idx, output>>
           ELSE /\ output' = output \o MigrateLines(targets[idx], r.status)
                /\ idx' = idx + 1
                /\ UNCHANGED <<pc, fault>>
    /\ UNCHANGED <<tenant, dry_run, include_github_targets, origin, url, acc,
                   targets, verified, vresp, net, pages, returned>>

\* migrate_targets: the loop is exhausted and main returns.
migrate_return ==
    /\ pc = "migrate_targets"
    /\ idx > Len(targets)
    /\ pc' = "done"
    /\ UNCHANGED <<tenant, dry_run, include_github_targets, origin, url, acc,
                   targets, idx, output, verified, vresp, net, patched,
                   patchStatus, pages, returned, fault>>

Next ==
    \/ main
    \/ verify_org_integrations
    \/ get_all_targets
    \/ dry_run_targets
    \/ dry_run_total
    \/ migrate_targets
    \/ migrate_return

Spec == Init /\ [][Next]_vars

\* The process keeps running: every call returns or raises (each request has a
\* timeout), so a step that can be taken is taken.
LiveSpec == Init /\ [][Next]_vars /\ WF_vars(Next)

(***************************************************************************)
(* Properties                                                              *)
(***************************************************************************)

Ended == pc \in {"done", "fault"}

\* A listing GET was issued.
ListingIssued == \E r \in net : r[3] \in Origins

ListingIssuedFor(o) == \E r \in net : r[3] = o

IntegrationsIssued == \E r \in net : r[3] = "integrations"

PatchedIds == [i \in 1..Len(patched) |-> patched[i][2]]

TargetIds(ts) == [i \in 1..Len(ts) |-> ts[i].id]

IsPrefix(a, b) == Len(a) <= Len(b) /\ \A i \in 1..Len(a) : a[i] = b[i]

\* The ids of the dry-run report lines, in the order printed.
ReportedIds ==
    LET ls == SelectSeq(output, LAMBDA l : l.text = "target")
    IN  [i \in 1..Len(ls) |-> ls[i].id]

\* C1: no listing GET and no PATCH is issued unless verify_org_integrations
\* has returned true; when it returns false the run is over and has issued
\* neither.
C1_Gate ==
    /\ (ListingIssued \/ patched # <<>>) => verified = "true"
    /\ verified = "false" => (pc = "done" /\ ~ListingIssued /\ patched = <<>>)

C1_Witness ==
    /\ verified = "true" /\ ListingIssued /\ Len(patched) = 2

\* C2: a dry run issues no PATCH; once listing is over it only prints report
\* lines.
C2_DryRunNoPatch ==
    dry_run =>
        /\ patched = <<>> /\ patchStatus = <<>>
        /\ pc # "migrate_targets"
        /\ verified = "true" =>
              \A i \in 1..Len(output) :
                  output[i].text \in {"target", "", "total targets"}

C2_Witness ==
    /\ dry_run /\ pc = "done" /\ verified = "true"
    /\ Len(targets) = 2 /\ Len(output) = 4

\* C3: migrate mode PATCHes the accumulated targets one by one in list order,
\* each exactly once, and goes on whatever status code a response carries:
\* when the run is done every target has had its one PATCH.
C3_OnePatchPerTarget ==
    (~dry_run /\ verified = "true") =>
        /\ IsPrefix(PatchedIds, TargetIds(targets))
        /\ pc = "migrate_targets" => Len(patched) = idx - 1
        /\ pc = "done" => PatchedIds = TargetIds(targets)

C3_Witness ==
    /\ pc = "done" /\ ~dry_run /\ Len(targets) = 2 /\ Len(patched) = 2
    /\ patchStatus[1].status = 500 /\ patchStatus[2].status = 409

\* C4: the line printed for a target says migrated exactly when its own PATCH
\* returned 200, already migrated exactly when it returned 409, and unable to
\* migrate, with the code, for every other code.
C4_Classification ==
    \A i \in 1..Len(patchStatus) :
        patchStatus[i].raised = "none" =>
            /\ i <= Len(output)
            /\ output[i].id = targets[i].id
            /\ output[i].name = targets[i].displayName
            /\ output[i].text \in {"migrated", "already migrated", "unable to migrate"}
            /\ output[i].text = "migrated" <=> patchStatus[i].status = 200
            /\ output[i].text = "already migrated" <=> patchStatus[i].status = 409
            /\ output[i].text = "unable to migrate" =>
                   output[i].code = patchStatus[i].status

C4_Witness ==
    /\ Len(output) = 2 /\ Len(patchStatus) = 2
    /\ patchStatus[1].status = 409 /\ patchStatus[2].status = 200
    /\ output[1].text = "already migrated" /\ output[2].text = "migrated"

\* C5: with a tenant other than "", "au" and "eu" the run is rejected at once
\* and makes no network call.
C5_InvalidTenant ==
    tenant \notin {"", "au", "eu"} =>
        /\ net = {} /\ patched = <<>> /\ vresp = Unsent
        /\ pc \in {"main", "done"}

C5_Witness ==
    /\ tenant = "uk" /\ pc = "done" /\ Len(output) = 2
    /\ output[1].text = "invalid tenant"

\* C6: verify_org_integrations never raises, and returns true exactly when
\* the response is a 200 whose body has the key github-cloud-app and one of
\* github-enterprise and github.
C6_VerifierTotal ==
    vresp # Unsent =>
        /\ verified \in {"true", "false"}
        /\ verified = "true" <=>
              /\ vresp.raised = "none"
              /\ vresp.status = 200
              /\ "github-cloud-app" \in vresp.keys
              /\ ("github-enterprise" \in vresp.keys \/ "github" \in vresp.keys)

\* C7: what get_all_targets returns is the concatenation, in page order, of
\* the data of the pages it visited; it goes on exactly while the last page
\* had a non-empty links.next and requests nothing after the first page whose
\* links.next is absent or empty.
C7_Paginator ==
    \A o \in Origins :
        /\ (pc = "get_all_targets" /\ origin = o) =>
              /\ ~returned[o].done
              /\ acc = pages[o].data
              /\ Len(acc) = pages[o].n
              /\ pages[o].last \in {"<none>"} \cup Cursors
              /\ pages[o].last \in Cursors => url.path = pages[o].last
        /\ returned[o].done =>
              /\ returned[o].value = pages[o].data
              /\ Len(returned[o].value) = pages[o].n
              /\ pages[o].last \in {"<absent>", ""}
        /\ pages[o].last \in {"<absent>", ""} =>
              (returned[o].done /\ ~(pc = "get_all_targets" /\ origin = o))

C7_Witness ==
    /\ returned["github-enterprise"].done
    /\ Len(returned["github-enterprise"].value) = 2
    /\ returned["github-enterprise"].value[1] # returned["github-enterprise"].value[2]
    /\ pages["github-enterprise"].last = ""

\* C8 as stated: the batch never ends in an unhandled fault of a PATCH with
\* later targets left unprocessed.
C8_NoFaultInBatch ==
    ~(pc = "fault" /\ patched # <<>> /\ Len(patched) < Len(targets))

\* C8, amended: every PATCH that returns a response, whatever its status, is
\* turned into a line for its target and the batch goes on; a PATCH that
\* raises is not caught: it ends the run there, with no line for that target
\* and no PATCH for the later ones.
C8_ResponsesPrinted ==
    (~dry_run /\ verified = "true") =>
        /\ \A i \in 1..Len(patchStatus) :
              /\ patchStatus[i].raised = "none" =>
                    (i <= Len(output) /\ output[i].id = targets[i].id)
              /\ patchStatus[i].raised # "none" =>
                    /\ pc = "fault" /\ fault = patchStatus[i].raised
                    /\ i = Len(patchStatus)
                    /\ Len(output) = i - 1
        /\ pc \in {"migrate_targets", "done"} =>
              (Len(output) = Len(patchStatus) /\ Len(patched) = Len(patchStatus))

C8_Witness ==
    /\ pc = "fault" /\ Len(targets) = 2 /\ Len(patchStatus) = 2
    /\ patchStatus[1].status = 500 /\ patchStatus[2].raised = "ConnectionError"
    /\ Len(output) = 1

\* C9 as stated: every run eventually ends.
C9_AlwaysEnds == <>Ended

\* Within one call of get_all_targets the list only grows at its end and the
\* initial url is not requested again.
SingleTraversal ==
    (pc = "get_all_targets" /\ pc' = "get_all_targets" /\ origin' = origin) =>
        /\ IsPrefix(acc, acc')
        /\ url'.path = "targets?origin=" => url.path = "targets?origin="

\* C9, amended: a run ends (done, or an unhandled exception) unless a
\* listing call is served non-empty links.next cursors for ever; the listing
\* loop has no bound of its own.  Each call traverses the pages once.
C9_EndsUnlessListingForever ==
    /\ (<>[](pc # "get_all_targets")) => <>Ended
    /\ [][SingleTraversal]_vars

C9_Witness ==
    /\ pc = "done" /\ verified = "true" /\ include_github_targets
    /\ Len(returned["github-enterprise"].value) = 1
    /\ Len(returned["github"].value) = 1
    /\ Len(patched) = 2

\* C10: github-enterprise pages are listed first, github pages only when
\* include_github_targets is set and only after them, and reporting or
\* PATCHing starts after the last listing request; the targets processed are
\* the github-enterprise ones followed by the github ones, in page order,
\* none dropped, reordered or deduplicated.
C10_PhasesAndOrder ==
    LET ghe == returned["github-enterprise"]
        gh  == returned["github"]
        all == ghe.value \o gh.value
        batch == patched # <<>> \/ ReportedIds # <<>>
                 \/ pc \in {"dry_run_targets", "migrate_targets"}
    IN  /\ ListingIssuedFor("github") => (include_github_targets /\ ghe.done)
        /\ gh.done => ghe.done
        /\ batch =>
              /\ pc # "get_all_targets"
              /\ ghe.done
              /\ gh.done <=> include_github_targets
              /\ targets = all
        /\ IsPrefix(PatchedIds, TargetIds(all))
        /\ IsPrefix(ReportedIds, TargetIds(all))
        /\ (pc = "done" /\ verified = "true") =>
              IF dry_run THEN ReportedIds = TargetIds(all)
              ELSE PatchedIds = TargetIds(all)

C10_Witness ==
    /\ pc = "done" /\ ~dry_run /\ include_github_targets
    /\ returned["github-enterprise"].value = returned["github"].value
    /\ Len(returned["github"].value) = 1
    /\ Len(patched) = 2 /\ patched[1] = patched[2]

====
